---- MODULE Spec2Model ----
(***************************************************************************)
(* uchimizu: a single-slot memoizing cache (Bucket) whose freshness is     *)
(* decided by a cost-budget Policy.  Model of src/src/lib.rs.              *)
(*                                                                         *)
(* u32 is modelled as a word with values 0..U32Max; the two build options  *)
(* that change what the code does are part of the state and are chosen at  *)
(* construction: overflow_checks (rustc's overflow checks: on, arithmetic  *)
(* overflow panics; off, it wraps) and serde (the cargo feature that       *)
(* switches Instant from the monotonic std::time::Instant to the wall      *)
(* clock chrono::DateTime<Utc>).                                           *)
(***************************************************************************)
EXTENDS Integers, Sequences, FiniteSets, TLC

\* ---------------------------------------------------------------- bounds
\* Largest value of the modelled u32 word (u32::MAX scaled down).
U32Max == 127
\* Clock readings are 0..MaxClock, in ticks of 1/TicksPerSec second.
MaxClock == 5
\* Sub-second resolution of the clock: ticks per whole second.
TicksPerSec == 2
\* A counted run makes at most MaxCalls calls.
MaxCalls == 12

Modulus == U32Max + 1
U32 == 0..U32Max

None == "none"
\* The values a task can produce (T = Result<_, _>: two successes, one error).
TaskValues == {"ok1", "ok2", "err"}
is_err(v) == v = "err"

\* ---------------------------------------------------------------- Policy
Policy(initial_amount, pour_cost, evaporation_cost) ==
  [initial_amount |-> initial_amount, pour_cost |-> pour_cost,
   evaporation_cost |-> evaporation_cost]

bottom_less == Policy(1, 0, 0)
pierced == Policy(0, 1, 1)
expire_within_counts(count) == Policy(count, 1, 0)
expire_within_secs(secs) == Policy(secs, 0, 1)

\* u32 arithmetic without overflow checks: the result wraps.
wrapping_mul(a, b) == (a * b) % Modulus
wrapping_add(a, b) == (a + b) % Modulus

\* is_remaining as a build without overflow checks computes it.
is_remaining_le(p, hit_count, secs) ==
  LET pour_amount == wrapping_mul(p.pour_cost, hit_count)
      evaporation_amount == wrapping_mul(p.evaporation_cost, secs)
  IN  wrapping_add(pour_amount, evaporation_amount) <= p.initial_amount

is_remaining(p, hit_count, secs) ==
  LET pour_amount == wrapping_mul(p.pour_cost, hit_count)
      evaporation_amount == wrapping_mul(p.evaporation_cost, secs)
  IN  wrapping_add(pour_amount, evaporation_amount) < p.initial_amount

\* Whether one of the three u32 operations of is_remaining overflows: with
\* overflow checks the call panics there instead of returning.
is_remaining_overflows(p, hit_count, secs) ==
  \/ p.pour_cost * hit_count > U32Max
  \/ p.evaporation_cost * secs > U32Max
  \/ p.pour_cost * hit_count + p.evaporation_cost * secs > U32Max

\* ----------------------------------------------------------------- clock
\* Whole seconds of a difference of two clock readings, truncated toward 0.
whole_secs(delta) ==
  IF delta >= 0 THEN delta \div TicksPerSec ELSE 0 - ((0 - delta) \div TicksPerSec)

\* now() - self.initiate: std's Instant subtraction saturates at zero,
\* chrono's gives a signed TimeDelta.
elapsed(serde_on, now, initiate) ==
  IF serde_on THEN now - initiate
  ELSE IF now >= initiate THEN now - initiate ELSE 0

\* duration_secs: try_into::<u32>().unwrap() panics on a negative number of
\* seconds and on one above u32::MAX.
duration_secs_panics(delta) == whole_secs(delta) < 0 \/ whole_secs(delta) > U32Max
duration_secs(delta) == whole_secs(delta)

\* ---------------------------------------------------------------- Bucket
VARIABLES
  policy,           \* Bucket.policy
  cache,            \* Bucket.cache: None or Some(value)
  hit_count,        \* Bucket.hit_count
  initiate,         \* Bucket.initiate: the clock reading of the last refresh
  clock,            \* what now() reads
  overflow_checks,  \* build: u32 overflow panics (TRUE) or wraps (FALSE)
  serde,            \* build: feature "serde" (wall clock) on or off
  pc,               \* "idle", or "awaiting": a call is suspended on its task
  history,          \* what the bucket saw last: "new", "refresh", or how
                    \* its last call stands ("pending", "returned", ...)
  last_result,      \* result of the most recent completed task invocation
  cur,              \* record of the call in flight, or of the last call
  completed,        \* a task invocation has completed since construction or
                    \* the last explicit refresh(), and no refresh was
                    \* triggered after it
  calls,            \* calls entered since construction (counted runs only)
  runs,             \* task invocations since construction (counted runs only)
  probe             \* inputs and result of a direct is_remaining evaluation

vars == <<policy, cache, hit_count, initiate, clock, overflow_checks, serde,
          pc, history, last_result, cur, completed, calls, runs, probe>>
counts == <<calls, runs>>
bucket == <<policy, cache, hit_count, initiate>>
build == <<overflow_checks, serde>>

\* The parameters Policy::new is given in the bucket model.
PolicyParams == {0, 1, U32Max}
Policies ==
  {bottom_less, pierced}
    \cup {expire_within_counts(n) : n \in {2, 3}}
    \cup {expire_within_secs(s) : s \in {1, 2}}
    \cup {Policy(b, p, e) : b \in PolicyParams, p \in PolicyParams, e \in PolicyParams}

\* cur: how the call in flight (or the last call) went.
\*   outcome    "none" | "pending" | "returned" | "panicked" (in the bucket's
\*              code) | "task_panicked" | "cancelled"
\*   site       where the bucket's code panicked
\*   remaining  what is_remaining returned at entry ("na": not evaluated)
\*   had        self.cache at entry
\*   invoked    how often this call invoked the task
\*   produced   what the task produced in this call
\*   ret        the value the call returned
\*   origin     what the bucket had seen last when the call was entered
\*   pre, at    while a refresh is outstanding: <<cache, hit_count, initiate>>
\*              at entry, and the clock reading at entry
NoCall ==
  [outcome |-> "none", site |-> None, remaining |-> "na", had |-> None,
   invoked |-> 0, produced |-> None, ret |-> None, origin |-> "new",
   pre |-> <<>>, at |-> 0]
NoProbe == [p |-> Policy(0, 0, 0), h |-> 0, d |-> 0, out |-> "none"]

\* Policy::into_bucket: an empty bucket, its epoch the time of construction.
into_bucket(p) ==
  /\ policy = p
  /\ cache = None
  /\ hit_count = 0
  /\ initiate = clock

Init ==
  /\ clock \in 0..MaxClock
  /\ overflow_checks \in BOOLEAN
  /\ serde \in BOOLEAN
  /\ \E p \in Policies : into_bucket(p)
  /\ pc = "idle"
  /\ history = "new"
  /\ last_result = None
  /\ cur = NoCall
  /\ completed = FALSE
  /\ calls = 0
  /\ runs = 0
  /\ probe = NoProbe

\* Bucket::refresh's assignments (also the first statement of call's miss arm).
refresh_keeps_cache ==
  /\ hit_count' = 0
  /\ cache' = cache
  /\ initiate' = clock

refresh_body ==
  /\ hit_count' = 0
  /\ cache' = None
  /\ initiate' = clock

\* The first arm of call's match: (true, Some(c)).
cache_hit_ignores_policy(remaining, c) == c # None
cache_hit_inverted(remaining, c) == ~remaining /\ c # None

cache_hit(remaining, c) == remaining /\ c # None

\* self.hit_count += 1 overflows at u32::MAX.
hit_count_overflows(h) == h = U32Max

\* A call that panics inside the bucket's own code.
call_panics(rem, site) ==
  /\ cur' = [NoCall EXCEPT !.outcome = "panicked", !.site = site,
                           !.remaining = rem, !.had = cache, !.origin = history]
  /\ history' = "panicked"
  /\ UNCHANGED <<cache, hit_count, initiate, pc, completed>>

\* The arm (true, Some(c)) => c, then self.hit_count += 1 and the return.
cache_hit_arm_resets_epoch(rem) ==
  IF overflow_checks /\ hit_count_overflows(hit_count)
  THEN call_panics(rem, "hit_count")
  ELSE /\ hit_count' = wrapping_add(hit_count, 1)
       /\ cur' = [NoCall EXCEPT !.outcome = "returned", !.remaining = rem,
                                !.had = cache, !.ret = cache,
                                !.origin = history]
       /\ history' = "returned"
       /\ initiate' = clock
       /\ UNCHANGED <<cache, pc, completed>>

cache_hit_arm(rem) ==
  IF overflow_checks /\ hit_count_overflows(hit_count)
  THEN call_panics(rem, "hit_count")
  ELSE /\ hit_count' = wrapping_add(hit_count, 1)
       /\ cur' = [NoCall EXCEPT !.outcome = "returned", !.remaining = rem,
                                !.had = cache, !.ret = cache,
                                !.origin = history]
       /\ history' = "returned"
       /\ UNCHANGED <<cache, initiate, pc, completed>>

\* Bucket::call up to its first suspension point: the policy check, then
\* either the cache hit (which returns at once) or refresh() and task.call().
call ==
  /\ pc = "idle"
  /\ UNCHANGED <<policy, clock, build, last_result, probe>>
  /\ LET delta == elapsed(serde, clock, initiate)
         secs == duration_secs(delta)
         remaining == is_remaining(policy, hit_count, secs)
         rem == IF remaining THEN "yes" ELSE "no"
     IN
     IF duration_secs_panics(delta) THEN call_panics("na", "duration_secs")
     ELSE IF overflow_checks /\ is_remaining_overflows(policy, hit_count, secs)
     THEN call_panics("na", "is_remaining")
     ELSE IF cache_hit(remaining, cache)
     THEN cache_hit_arm(rem)
     ELSE /\ refresh_body
          /\ completed' = FALSE
          /\ pc' = "awaiting"
          /\ cur' = [NoCall EXCEPT !.outcome = "pending", !.remaining = rem,
                                   !.had = cache, !.invoked = 1,
                                   !.origin = history,
                                   !.pre = <<cache, hit_count, initiate>>,
                                   !.at = clock]
          /\ history' = "pending"

\* The awaited task completes with v: call stores it, counts the access and
\* returns it.
task_result_not_stored(v) ==
  /\ pc = "awaiting"
  /\ cache' = None
  /\ completed' = TRUE
  /\ pc' = "idle"
  /\ last_result' = v
  /\ hit_count' = wrapping_add(hit_count, 1)
  /\ cur' = [cur EXCEPT !.outcome = "returned", !.produced = v,
                        !.ret = v, !.pre = <<>>, !.at = 0]
  /\ history' = "returned"
  /\ UNCHANGED <<policy, initiate, clock, build, probe>>

task_returns(v) ==
  /\ pc = "awaiting"
  /\ cache' = v
  /\ completed' = TRUE
  /\ pc' = "idle"
  /\ last_result' = v
  /\ IF overflow_checks /\ hit_count_overflows(hit_count)
     THEN /\ cur' = [cur EXCEPT !.outcome = "panicked", !.site = "hit_count",
                                !.produced = v, !.pre = <<>>, !.at = 0]
          /\ history' = "panicked"
          /\ UNCHANGED hit_count
     ELSE /\ hit_count' = wrapping_add(hit_count, 1)
          /\ cur' = [cur EXCEPT !.outcome = "returned", !.produced = v,
                                !.ret = v, !.pre = <<>>, !.at = 0]
          /\ history' = "returned"
  /\ UNCHANGED <<policy, initiate, clock, build, probe>>

\* The awaited task panics: the panic unwinds through call.
task_panics ==
  /\ pc = "awaiting"
  /\ pc' = "idle"
  /\ cur' = [cur EXCEPT !.outcome = "task_panicked", !.pre = <<>>, !.at = 0]
  /\ history' = "task_panicked"
  /\ UNCHANGED <<bucket, clock, build, last_result, completed, probe>>

\* The future of a suspended call is dropped (cancellation).
call_dropped ==
  /\ pc = "awaiting"
  /\ pc' = "idle"
  /\ cur' = [cur EXCEPT !.outcome = "cancelled"]
  /\ history' = "cancelled"
  /\ UNCHANGED <<bucket, clock, build, last_result, completed, probe>>

\* Bucket::refresh, called by the owner (no call is in flight: &mut self).
refresh ==
  /\ pc = "idle"
  /\ refresh_body
  /\ completed' = FALSE
  /\ history' = "refresh"
  /\ UNCHANGED <<policy, clock, build, pc, last_result, cur, probe>>

\* Time passes.
tick ==
  /\ clock < MaxClock
  /\ clock' = clock + 1
  /\ UNCHANGED <<bucket, build, pc, history, last_result, cur, completed, probe>>

\* The wall clock (feature serde) is set back; a monotonic Instant never is.
clock_set_back ==
  /\ serde
  /\ \E t \in 0..(clock - 1) : clock' = t
  /\ UNCHANGED <<bucket, build, pc, history, last_result, cur, completed, probe>>

\* The bucket in general: calls and task invocations are not counted.
Next ==
  \/ call /\ UNCHANGED counts
  \/ \E v \in TaskValues : task_returns(v) /\ UNCHANGED counts
  \/ task_panics /\ UNCHANGED counts
  \/ call_dropped /\ UNCHANGED counts
  \/ refresh /\ UNCHANGED counts
  \/ tick /\ UNCHANGED counts
  \/ clock_set_back /\ UNCHANGED counts

Spec == Init /\ [][Next]_vars

\* ------------------------------------------------------------ counted runs
\* One owner calls a new bucket again and again, each call running to its
\* end before the next starts (tests::race: two calls in one spawned task),
\* while time passes; the calls and the task invocations are counted.
BurstPolicies == Policies \cup {Policy(100, 10, 0)}

InitBurst ==
  /\ clock \in 0..MaxClock
  /\ overflow_checks \in BOOLEAN
  /\ serde \in BOOLEAN
  /\ \E p \in BurstPolicies : into_bucket(p)
  /\ pc = "idle"
  /\ history = "new"
  /\ last_result = None
  /\ cur = NoCall
  /\ completed = FALSE
  /\ calls = 0
  /\ runs = 0
  /\ probe = NoProbe

counted_call ==
  /\ calls < MaxCalls
  /\ call
  /\ calls' = calls + 1
  /\ runs' = runs + cur'.invoked

NextBurst ==
  \/ counted_call
  \/ \E v \in TaskValues : task_returns(v) /\ UNCHANGED counts
  \/ tick /\ UNCHANGED counts

SpecBurst == InitBurst /\ [][NextBurst]_vars

\* ------------------------------------------------- is_remaining on its own
\* The u32 values is_remaining is evaluated at where not every value is:
\* the smallest, the largest and the ones around the middle of the word.
Samples == {0, 1, 2, 3, Modulus \div 2 - 1, Modulus \div 2, U32Max - 1, U32Max}

\* What is_remaining is evaluated on: each preset with every value of the
\* quantities it depends on, and Policy::new over the samples.
ProbeInputs ==
  ({bottom_less, pierced} \X U32 \X U32)
    \cup ({expire_within_counts(n) : n \in U32} \X U32 \X Samples)
    \cup ({expire_within_secs(s) : s \in U32} \X Samples \X U32)
    \cup ({Policy(b, p, e) : b \in Samples, p \in Samples, e \in Samples}
            \X Samples \X Samples)

InitPolicy ==
  /\ clock = 0
  /\ overflow_checks \in BOOLEAN
  /\ serde = FALSE
  /\ into_bucket(bottom_less)
  /\ pc = "idle"
  /\ history = "new"
  /\ last_result = None
  /\ cur = NoCall
  /\ completed = FALSE
  /\ calls = 0
  /\ runs = 0
  /\ \E i \in ProbeInputs :
       probe = [p |-> i[1], h |-> i[2], d |-> i[3], out |-> "none"]

\* p.is_remaining(h, d) is evaluated: it panics, or returns true or false.
evaluate ==
  /\ probe.out = "none"
  /\ probe' =
       [probe EXCEPT !.out =
          IF overflow_checks /\ is_remaining_overflows(probe.p, probe.h, probe.d)
          THEN "panic"
          ELSE IF is_remaining(probe.p, probe.h, probe.d) THEN "true" ELSE "false"]
  /\ UNCHANGED <<bucket, clock, build, pc, history, last_result, cur,
                 completed, counts>>

NextPolicy == evaluate

SpecPolicy == InitPolicy /\ [][NextPolicy]_vars

\* ---------------------------------------------------------------- claims
\* A call that is over, other than by its task failing or by cancellation.
call_over == cur.outcome \in {"returned", "panicked"}
unbounded_cost(p, h, d) == p.pour_cost * h + p.evaporation_cost * d

\* C1: a call entered while is_remaining(hit_count, elapsed seconds) is false
\* invokes the task (once, before it suspends) and, when it returns, returns
\* the value the task produced in this very call, never the value cached
\* before; it never ends in the bucket's own code without the task.
C1_ExhaustedBudgetRecomputes ==
  cur.remaining = "no" =>
    /\ cur.invoked = 1
    /\ cur.outcome \in {"pending", "returned", "task_panicked", "cancelled"}
    /\ (cur.outcome = "pending") = (pc = "awaiting")
    /\ cur.outcome = "returned" =>
         /\ cur.produced # None
         /\ cur.ret = cur.produced
         /\ (history = "returned" => cache = cur.produced)

\* C1's case: a stale cached value was present, the budget was exhausted, and
\* the call returned a different, freshly produced value.
C1_Witness ==
  /\ cur.remaining = "no"
  /\ cur.had # None
  /\ cur.outcome = "returned"
  /\ cur.ret # cur.had

\* C2: the first call on a freshly constructed bucket invokes the task
\* exactly once and returns the task's result, for every policy.
C2_FirstCallInvokesTaskOnce ==
  (cur.origin = "new" /\ cur.outcome # "none") =>
    /\ cur.invoked = 1
    /\ cur.outcome # "panicked"
    /\ cur.outcome = "returned" => cur.ret = cur.produced

\* C3: a call entered with a cached value present and is_remaining true does
\* not invoke the task, never suspends, and returns the result of the most
\* recent completed task invocation.
C3_CacheHitReturnsLastResult ==
  (cur.remaining = "yes" /\ cur.had # None) =>
    /\ cur.invoked = 0
    /\ cur.outcome = "returned"
    /\ cur.ret = cur.had
    /\ cur.ret = last_result

\* C4: every call invokes the task at most once and then returns (a call
\* whose task fails or which is cancelled aside).
C4_AtMostOneInvocationThenReturns ==
  /\ cur.invoked <= 1
  /\ call_over => cur.outcome = "returned"
  /\ (cur.outcome = "returned" /\ cur.invoked = 1) => cur.ret = cur.produced

\* C5: refresh() invokes no task and leaves the bucket Empty, and the call
\* that follows a refresh() invokes the task exactly once.
C5_RefreshThenCallInvokesOnce ==
  /\ history = "refresh" => (cache = None /\ hit_count = 0 /\ pc = "idle")
  /\ (cur.origin = "refresh" /\ cur.outcome # "none") =>
       (cur.invoked = 1 /\ cur.outcome # "panicked")

\* C6: is_remaining(h, d) returns false whenever pour_cost * h +
\* evaporation_cost * d, computed without bound, is >= initial_amount.
C6_OverflowReadsAsExpired ==
  (probe.out # "none" /\ unbounded_cost(probe.p, probe.h, probe.d) >= probe.p.initial_amount)
    => probe.out = "false"

\* C7: after a call whose task failed (panicked, or returned an error value)
\* the bucket is Empty: no value is stored and hit_count is 0.
C7_FailedTaskLeavesEmpty ==
  (/\ history \in {"returned", "task_panicked"}
   /\ cur.invoked = 1
   /\ (cur.outcome = "task_panicked" \/ is_err(cur.produced)))
    => (cache = None /\ hit_count = 0)

C9_ElapsedNeverFails ==
  cur.site # "duration_secs"

\* C10: expire_within_counts(n).is_remaining(h, d) is true iff h < n, for
\* every n, h and d (and it always returns).
C10_ExpireWithinCounts ==
  \A n \in U32 :
    (probe.out # "none" /\ probe.p = expire_within_counts(n)) =>
      /\ probe.out \in {"true", "false"}
      /\ (probe.out = "true") = (probe.h < n)

\* C10's case: the boundary h = n, with time elapsed, reads as expired.
C10_Witness ==
  /\ probe.p = expire_within_counts(3)
  /\ probe.h = 3
  /\ probe.d = U32Max
  /\ probe.out = "false"

\* A step that is a call's first part: it starts from an idle bucket, reads
\* the clock without moving it, and is no explicit refresh().
call_step == pc = "idle" /\ clock' = clock /\ history' \in {"returned", "pending", "panicked"}
\* Such a step that took the cache-hit arm (whether or not it then returned).
hit_step == call_step /\ cur'.invoked = 0 /\ cur'.remaining = "yes" /\ cur'.had # None
\* ceil(b / c) for c >= 1.
ceil_div(b, c) == (b + c - 1) \div c

\* C11: with expire_within_secs(s), a call that finds a cached value is
\* served from the cache (no task, the cached value returned) when the whole
\* seconds elapsed since the epoch are < s, whatever hit_count is, and
\* refreshes when they are >= s.
C11_ExpireWithinSecsBucket ==
  [][(/\ call_step
      /\ policy = expire_within_secs(policy.initial_amount)
      /\ cache # None
      /\ clock >= initiate)
     => IF whole_secs(clock - initiate) < policy.initial_amount
        THEN /\ history' = "returned"
             /\ cur'.invoked = 0
             /\ cur'.ret = cache
        ELSE cur'.invoked = 1]_vars

\* C12: Policy::pierced().is_remaining(h, d) is false for all h and d.
C12_PiercedNeverRemaining ==
  (probe.out # "none" /\ probe.p = pierced) => probe.out = "false"

\* C13: with Policy::bottom_less() and no explicit refresh(), a call that
\* follows a call that returned invokes no task and returns the same value,
\* however many calls came before and whatever time has passed.
C13_BottomLessInvokesOnce ==
  (policy = bottom_less /\ cur.origin = "returned" /\ cur.outcome # "none") =>
    /\ cur.outcome = "returned"
    /\ cur.invoked = 0
    /\ cur.ret = last_result

\* C14: on a new bucket with Policy::new(100, 10, 0), the first 9 calls
\* invoke the task exactly once, in the first call, and calls 2..9 return
\* the first call's result.
C14_NineCallsOneInvocation ==
  (policy = Policy(100, 10, 0) /\ calls \in 1..9) =>
    /\ runs = 1
    /\ cur.outcome \in {"pending", "returned"}
    /\ calls > 1 => (cur.outcome = "returned" /\ cur.invoked = 0)
    /\ cur.outcome = "returned" => (cur.ret = last_result /\ cache = last_result)

\* C14's case: the ninth call has returned and the task ran once.
C14_Witness ==
  /\ policy = Policy(100, 10, 0)
  /\ calls = 9
  /\ runs = 1
  /\ hit_count = 9
  /\ cur.outcome = "returned"

\* C15 as stated: with Policy::new(100, 10, 0) the 10th call refreshes: the
\* task's second invocation happens in call number 10.
C15_TenthCallRefreshes ==
  (policy = Policy(100, 10, 0) /\ calls = 10) => (runs = 2 /\ cur.invoked = 1)

\* C15 amended: with Policy::new(100, 10, 0) calls 1..10 are served by one
\* task invocation (call k checks hit_count = k - 1, and 10 * 9 < 100), and
\* the 11th call refreshes: the task's second invocation happens in call
\* number 11.
C15_EleventhCallRefreshes ==
  policy = Policy(100, 10, 0) =>
    /\ calls \in 1..10 => runs = 1
    /\ (calls = 10 /\ cur.outcome = "returned") => (cur.invoked = 0 /\ hit_count = 10)
    /\ calls = 11 => (runs = 2 /\ cur.invoked = 1 /\ cur.remaining = "no")

\* C15's case: the eleventh call has refreshed and returned.
C15_Witness ==
  /\ policy = Policy(100, 10, 0)
  /\ calls = 11
  /\ runs = 2
  /\ cur.outcome = "returned"
  /\ hit_count = 1

\* C16: of two serialized calls on a new bucket, the first having returned,
\* a second call that finds the policy remaining invokes no task and returns
\* without suspending: one task invocation in total.
C16_SerializedSecondCallHits ==
  (calls = 2 /\ cur.origin = "returned" /\ cur.remaining = "yes") =>
    /\ runs = 1
    /\ cur.invoked = 0
    /\ cur.outcome = "returned"
    /\ pc = "idle"
    /\ cur.ret = last_result

\* C16's case: tests::race's policy, the second call made some time (under a
\* second) after the first began.
C16_Witness ==
  /\ policy = expire_within_counts(3)
  /\ calls = 2
  /\ runs = 1
  /\ cur.outcome = "returned"
  /\ clock > initiate
  /\ clock - initiate < TicksPerSec

\* C17: hit_count decreases only at a refresh, where it becomes 0; a call
\* that refreshes ends with hit_count = 1, and a cache-hit call ends with
\* hit_count one greater than before.
C17_HitCountOnlyGrowsBetweenRefreshes ==
  [][/\ hit_count' < hit_count => (hit_count' = 0 /\ cache' = None /\ initiate' = clock)
     /\ hit_step => hit_count' = hit_count + 1
     /\ (pc = "awaiting" /\ history' = "returned") => hit_count' = 1]_vars

\* C18: a cached value is present exactly when a task invocation has
\* completed since construction or the last explicit refresh() and no
\* refresh was triggered after it; it is absent while a call is suspended on
\* its task and present after every call that returns.
C18_CachePresentIffCompleted ==
  /\ (cache # None) = completed
  /\ pc = "awaiting" => cache = None
  /\ history = "returned" => cache # None
  /\ history \in {"new", "refresh"} => cache = None

\* C18's case: a call is suspended on its task after an earlier invocation
\* had completed, and the value of that invocation is gone.
C18_Witness ==
  /\ pc = "awaiting"
  /\ last_result # None
  /\ cur.had # None
  /\ cache = None

\* C19: no step changes the policy, and a cache-hit call changes neither the
\* cached value nor the epoch (only hit_count).
C19_HitChangesOnlyHitCount ==
  [][/\ policy' = policy
     /\ (hit_step /\ history' = "returned") =>
          (cache' = cache /\ initiate' = initiate /\ pc' = pc /\ hit_count' # hit_count)]_vars

\* C19's case: a cache hit was served some time after the epoch.
C19_Witness ==
  /\ history = "returned"
  /\ cur.invoked = 0
  /\ cur.ret # None
  /\ clock > initiate
  /\ hit_count > 1

\* C20: with pour_cost >= 1 and initial_amount >= 1, hit_count (the number
\* of calls that returned the current value, the refreshing call included)
\* never exceeds ceil(initial_amount / pour_cost).
C20_BoundedReuse ==
  (policy.pour_cost >= 1 /\ policy.initial_amount >= 1) =>
    hit_count <= ceil_div(policy.initial_amount, policy.pour_cost)

====
